---- MODULE Spec2Model ----
(***************************************************************************)
(* Model of run.c (llama2.c inference): the checkpoint loader, the weight  *)
(* layout, the forward pass with its key/value cache, the sampler and the  *)
(* generation loop of main().                                              *)
(*                                                                         *)
(* Scope of the model:                                                     *)
(*  - main() is followed on its inference path (training_data == NULL);    *)
(*    the fine-tuning branch calls __enzyme_autodiff, which is no code of  *)
(*    this file.                                                           *)
(*  - float is modelled as fixed point with FxOne units per 1.0: + and -   *)
(*    are exact, * and / round down, sqrtf and expf are the rounded-down   *)
(*    fixed-point functions.  All buffers are flat arrays indexed as the   *)
(*    code indexes them.                                                   *)
(*  - the checkpoint file is a flat array of floats; its content is a      *)
(*    fixed function of (seed, index) so that distinct tensors hold        *)
(*    distinct data.                                                       *)
(*  - int arithmetic is modelled on mathematical integers: every product   *)
(*    the bounded configurations form fits a 32-bit int.                   *)
(*  - fopen, fread, mmap, calloc and the read of tokenizer.bin succeed     *)
(*    (their failure ends main() before the loop); the printed strings     *)
(*    vocab[next] are modelled by the token ids.                           *)
(*  - rand() returns any value in 0..RAND_MAX.                             *)
(***************************************************************************)
EXTENDS Integers, Sequences, FiniteSets, TLC

VARIABLES
    hdr,            \* the seven header ints as stored in the checkpoint file
    file_floats,    \* number of 4-byte words in the checkpoint file (header included)
    seed,           \* selects the file's tensor data
    arg_steps,      \* argv[3] (requested steps)
    temperature,    \* argv[2], in fixed point
    pc,             \* position of main()
    config,         \* Config
    shared_weights, \* int shared_weights
    weights,        \* TransformerWeights: offsets of the views into the mapped file
    steps,          \* int steps
    state,          \* RunState
    token, pos, next,
    l,              \* transformer(): layer loop index
    hdone,          \* attention loop: heads whose iteration has run
    out,            \* tokens printed so far
    rnd,            \* last value returned by rand()
    kc_writes,      \* per key_cache element: number of writes since allocation
    vc_writes,      \* per value_cache element: number of writes since allocation
    kc_writer,      \* per key_cache element: pos of the step that wrote it, -1 if none
    vc_writer,      \* per value_cache element: pos of the step that wrote it, -1 if none
    k_reads,        \* key_cache indices read by the attention loop of the current layer
    v_reads,        \* value_cache indices read by the attention loop of the current layer
    hd_writes,      \* attention loop: <<h, buffer, index>> for each element head h wrote
    hd_reads,       \* attention loop: <<h, buffer, index>> for each element head h read
    seq,            \* att and xb as the loop run in the order h = 0, 1, ... leaves them
    written         \* per buffer: the indices written so far by this call of transformer()

vars == << hdr, file_floats, seed, arg_steps, temperature, pc, config,
           shared_weights, weights, steps, state, token, pos, next, l, hdone,
           out, rnd, kc_writes, vc_writes, kc_writer, vc_writer, k_reads, v_reads,
           hd_writes, hd_reads, seq, written >>

inputs == << hdr, file_floats, seed, arg_steps, temperature >>
ghosts == << kc_writes, vc_writes, kc_writer, vc_writer, k_reads, v_reads >>
fp == << hd_writes, hd_reads, seq >>

----
\* Fixed-point model of float: FxOne units per 1.0.
FxOne == 8

\* Bounds of the model.
MaxLayers == 2
MaxVocab == 2
MaxSeqLen == 2
MaxMissing == 1
RandMax == 3
MaxLogits == 3
LayoutMax == 3

\* (dim, n_heads) pairs with dim % n_heads = 0 and even head_size.
DimHeads == { <<4, 1>>, <<4, 2>> }
HiddenDims == { 3 }
Seeds == { 0, 1 }
\* the same, for the specifications of the loader alone
LayoutDimHeads == { <<2, 1>>, <<4, 1>>, <<4, 2>>, <<6, 1>>, <<6, 3>>, <<8, 2>> }
\* logits the sampler is applied to
LogitVals == { -FxOne, -1, 0, 3, FxOne }

----
----
FxInf == FxOne * FxOne * FxOne

Mul(a, b) == (a * b) \div FxOne
Div(a, b) == (a * FxOne) \div b

ISqrt(a) == CHOOSE r \in 0..a : r * r <= a /\ (r + 1) * (r + 1) > a
Sqrtf(a) == ISqrt(a * FxOne)

\* floor(FxOne * e^(-k/FxOne)) for k = 0, 1, ...
ExpNegTab == << 8, 7, 6, 5, 4, 4, 3, 3, 2, 2, 2, 2, 1, 1, 1, 1, 1 >>
ExpNeg(k) == IF k < Len(ExpNegTab) THEN ExpNegTab[k + 1] ELSE 0
Expf(d) == IF d <= 0 THEN ExpNeg(-d)
           ELSE IF ExpNeg(d) = 0 THEN FxInf
           ELSE (FxOne * FxOne) \div ExpNeg(d)

RECURSIVE SumTo(_, _)
\* f[0] + ... + f[n-1], accumulated left to right
SumTo(f, n) == IF n = 0 THEN 0 ELSE SumTo(f, n - 1) + f[n - 1]

\* An array value, evaluated once (TLC would otherwise re-evaluate the
\* constructor's body at every application).  For the same reason the actions
\* bind an intermediate buffer b with  \E b \in {e} : ...  : b is e, evaluated.
Arr(f) == f @@ << >>

\* The element of a one-element set: Only({ e(b) : b \in {v} }) is e(v) with
\* v evaluated once.
Only(S) == CHOOSE r \in S : TRUE

Zeros(n) == [i \in 0..(n - 1) |-> 0]

----
\* The checkpoint file.
HeaderWords == 7

Content(sd, i) == ((i * 7 + (i \div 5) * 3 + sd * 5) % 17) - 8

\* data[i]: a word of the mapping; past the end of the file the rest of the
\* last page reads as zero.
Data(i) == IF i < file_floats THEN Content(seed, i) ELSE 0

\* Number of floats the header implies after the seven ints.
ImpliedFloats(h) ==
    LET v == IF h.vocab_size < 0 THEN -h.vocab_size ELSE h.vocab_size
        hs == h.dim \div h.n_heads
    IN  v * h.dim + h.n_layers * h.dim
        + 4 * (h.n_layers * h.dim * h.dim)
        + h.n_layers * h.dim
        + 3 * (h.n_layers * h.dim * h.hidden_dim)
        + h.dim
        + 2 * ((h.seq_len * hs) \div 2)
        + (IF h.vocab_size < 0 THEN v * h.dim ELSE 0)

Abs(n) == IF n < 0 THEN -n ELSE n

SharedWeightsBad(v) == IF v >= 0 THEN 0 ELSE 1
SharedWeights(v) == IF v > 0 THEN 1 ELSE 0

\* floats in freq_cis_real and in freq_cis_imag
FreqCisSizeBad(p) == p.seq_len * (p.dim \div 2)
FreqCisSize(p) == (p.seq_len * (p.dim \div p.n_heads)) \div 2

CheckpointInitWeights(p, f, shared) ==
    LET t0 == f
        t1 == t0 + p.vocab_size * p.dim
        t2 == t1 + p.n_layers * p.dim
        t3 == t2 + p.n_layers * p.dim * p.dim
        t4 == t3 + p.n_layers * p.dim * p.dim
        t5 == t4 + p.n_layers * p.dim * p.dim
        t6 == t5 + p.n_layers * p.dim * p.dim
        t7 == t6 + p.n_layers * p.dim
        t8 == t7 + p.n_layers * p.dim * p.hidden_dim
        t9 == t8 + p.n_layers * p.hidden_dim * p.dim
        t10 == t9 + p.n_layers * p.dim * p.hidden_dim
        t11 == t10 + p.dim
        t12 == t11 + FreqCisSize(p)
        t13 == t12 + FreqCisSize(p)
    IN  [ token_embedding_table |-> t0,
          rms_att_weight |-> t1,
          wq |-> t2, wk |-> t3, wv |-> t4, wo |-> t5,
          rms_ffn_weight |-> t6,
          w1 |-> t7, w2 |-> t8, w3 |-> t9,
          rms_final_weight |-> t10,
          freq_cis_real |-> t11,
          freq_cis_imag |-> t12,
          wcls |-> IF shared # 0 THEN t0 ELSE t13 ]

NoConfig == [ dim |-> 0, hidden_dim |-> 0, n_layers |-> 0, n_heads |-> 0,
              n_kv_heads |-> 0, vocab_size |-> 0, seq_len |-> 0 ]
NoWeights == [ token_embedding_table |-> 0, rms_att_weight |-> 0, wq |-> 0, wk |-> 0,
               wv |-> 0, wo |-> 0, rms_ffn_weight |-> 0, w1 |-> 0, w2 |-> 0, w3 |-> 0,
               rms_final_weight |-> 0, freq_cis_real |-> 0, freq_cis_imag |-> 0,
               wcls |-> 0 ]
NoState == [ x |-> << >>, xb |-> << >>, xb2 |-> << >>, hb |-> << >>, hb2 |-> << >>,
             q |-> << >>, k |-> << >>, v |-> << >>, att |-> << >>, logits |-> << >>,
             key_cache |-> << >>, value_cache |-> << >> ]
NoSeq == [ att |-> << >>, xb |-> << >> ]
NoWritten == [ x |-> {}, xb |-> {}, xb2 |-> {}, hb |-> {}, hb2 |-> {}, q |-> {},
               k |-> {}, v |-> {}, att |-> {}, logits |-> {} ]

Headers ==
    { [ dim |-> dh[1], hidden_dim |-> hd, n_layers |-> nl, n_heads |-> dh[2],
        n_kv_heads |-> dh[2], vocab_size |-> sg * v, seq_len |-> sl ] :
        dh \in DimHeads, hd \in HiddenDims, nl \in 1..MaxLayers,
        sg \in {-1, 1}, v \in 1..MaxVocab, sl \in 1..MaxSeqLen }

InitCommon ==
    /\ pc = "start"
    /\ config = NoConfig
    /\ shared_weights = 0
    /\ weights = NoWeights
    /\ steps = arg_steps
    /\ state = NoState
    /\ token = 0 /\ pos = 0 /\ next = 0
    /\ l = 0
    /\ hdone = {}
    /\ out = << >>
    /\ rnd = 0
    /\ kc_writes = << >> /\ vc_writes = << >>
    /\ kc_writer = << >> /\ vc_writer = << >>
    /\ k_reads = {} /\ v_reads = {}
    /\ hd_writes = {} /\ hd_reads = {}
    /\ seq = NoSeq
    /\ written = NoWritten

Init ==
    /\ hdr \in Headers
    /\ file_floats = HeaderWords + ImpliedFloats(hdr)
    /\ seed \in Seeds
    /\ arg_steps \in (-1)..(MaxSeqLen + 1)
    /\ temperature \in {0, FxOne}
    /\ InitCommon

----
\* main(), lines 455-482: read the header, map the file, slice the weights.
ReadCheckpoint ==
    /\ pc = "start"
    /\ LET cfg == [hdr EXCEPT !.vocab_size = Abs(hdr.vocab_size)]
           sh == SharedWeights(hdr.vocab_size)
       IN  /\ config' = cfg
           /\ shared_weights' = sh
           /\ weights' = CheckpointInitWeights(cfg, HeaderWords, sh)
    /\ pc' = "clamp"
    /\ UNCHANGED << inputs, steps, state, token, pos, next, l, hdone, out, rnd, ghosts,
                    fp, written >>

\* main(), line 484: clamp the number of steps.
ClampBad(st, seq_len) == IF st < 0 \/ st > seq_len THEN seq_len ELSE st
Clamp(st, seq_len) == IF st <= 0 \/ st > seq_len THEN seq_len ELSE st

ClampSteps ==
    /\ pc = "clamp"
    /\ steps' = Clamp(steps, config.seq_len)
    /\ pc' = "alloc"
    /\ UNCHANGED << inputs, config, shared_weights, weights, state, token, pos,
                    next, l, hdone, out, rnd, ghosts, fp, written >>

\* malloc_run_state: every buffer calloc'ed (zero).
MallocRunState(p) ==
    [ x |-> Zeros(p.dim), xb |-> Zeros(p.dim), xb2 |-> Zeros(p.dim),
      hb |-> Zeros(p.hidden_dim), hb2 |-> Zeros(p.hidden_dim),
      q |-> Zeros(p.dim), k |-> Zeros(p.dim), v |-> Zeros(p.dim),
      att |-> Zeros(p.n_heads * p.seq_len),
      logits |-> Zeros(p.vocab_size),
      key_cache |-> Zeros(p.n_layers * p.seq_len * p.dim),
      value_cache |-> Zeros(p.n_layers * p.seq_len * p.dim) ]

\* while (pos < steps): where main() goes from the loop test.
LoopHead(ps, st) == IF ps < st THEN "embed" ELSE "done"

\* main(), lines 506-519: allocate the RunState, token = BOS, pos = 0.
BosToken == 1

AllocRunState ==
    /\ pc = "alloc"
    /\ state' = MallocRunState(config)
    /\ token' = BosToken
    /\ pos' = 0
    /\ kc_writes' = Zeros(config.n_layers * config.seq_len * config.dim)
    /\ vc_writes' = Zeros(config.n_layers * config.seq_len * config.dim)
    /\ kc_writer' = [i \in 0..(config.n_layers * config.seq_len * config.dim - 1) |-> -1]
    /\ vc_writer' = [i \in 0..(config.n_layers * config.seq_len * config.dim - 1) |-> -1]
    /\ pc' = LoopHead(0, steps)
    /\ UNCHANGED << inputs, config, shared_weights, weights, steps, next, l, hdone,
                    out, rnd, k_reads, v_reads, fp, written >>

----
\* Neural net blocks.

\* a[i] += b[i]
Accum(a, b, size) == Arr([i \in 0..(size - 1) |-> a[i] + b[i]])

\* rmsnorm(o, x, data + woff, size); the 1e-5f is the smallest positive unit
Rmsnorm(x, woff, size) ==
    LET sq == [j \in 0..(size - 1) |-> Mul(x[j], x[j])]
        ss0 == SumTo(sq, size) \div size
        ss1 == ss0 + 1
        ss == Div(FxOne, Sqrtf(ss1))
    IN  Arr([j \in 0..(size - 1) |-> Mul(Data(woff + j), Mul(ss, x[j]))])

RECURSIVE MaxScan(_, _, _, _, _)
\* softmax's scan for the maximum, from index i with the running max_val
MaxScan(x, base, i, max_val, size) ==
    IF i >= size THEN max_val
    ELSE IF x[base + i] > max_val THEN MaxScan(x, base, i + 1, x[base + i], size)
    ELSE MaxScan(x, base, i + 1, max_val, size)

\* softmax(x + base, size), in place
Softmax(x, base, size) ==
    LET max_val == MaxScan(x, base, 1, x[base], size)
        e == Arr([i \in 0..(size - 1) |-> Expf(x[base + i] - max_val)])
        sum == SumTo(e, size)
    IN  Arr([i \in DOMAIN x |->
               IF i >= base /\ i < base + size THEN Div(e[i - base], sum) ELSE x[i]])

\* matmul(xout, x, data + woff, n, d): W (d,n) @ x (n,) -> xout (d,)
MatMul(x, woff, n, d) ==
    Arr([i \in 0..(d - 1) |->
           SumTo([j \in 0..(n - 1) |-> Mul(Data(woff + i * n + j), x[j])], n)])

\* memcpy(dst + off, src, n)
Memcpy(dst, off, src, n) ==
    Arr([i \in DOMAIN dst |-> IF i >= off /\ i < off + n THEN src[i - off] ELSE dst[i]])

\* ghost of memcpy(dst + off, ., n): one more write of each element it covers
CountWrites(cnt, off, n) ==
    [i \in DOMAIN cnt |-> IF i >= off /\ i < off + n THEN cnt[i] + 1 ELSE cnt[i]]
MarkWriter(wr, off, n, p) ==
    [i \in DOMAIN wr |-> IF i >= off /\ i < off + n THEN p ELSE wr[i]]

ReadAt(arr, i) == IF i \in DOMAIN arr THEN arr[i] ELSE 0

HeadSize == config.dim \div config.n_heads

----
\* transformer(), lines 229-235: copy the token embedding into x.
EmbeddingRow(tok) == weights.token_embedding_table + tok * config.dim

Embed ==
    /\ pc = "embed"
    /\ state' = [state EXCEPT
                   !.x = [i \in 0..(config.dim - 1) |-> Data(EmbeddingRow(token) + i)]]
    /\ written' = [NoWritten EXCEPT !.x = 0..(config.dim - 1)]
    /\ l' = 0
    /\ pc' = "qkv"
    /\ UNCHANGED << inputs, config, shared_weights, weights, steps, token, pos, next,
                    hdone, out, rnd, ghosts, fp >>

\* transformer(), lines 241-246: attention rmsnorm and the q, k, v matmuls.
QueryWeights(lyr) == weights.wq + lyr * config.dim * config.dim
KeyWeightsBad(lyr) == weights.wv + lyr * config.dim * config.dim
KeyWeights(lyr) == weights.wk + lyr * config.dim * config.dim
ValueWeights(lyr) == weights.wv + lyr * config.dim * config.dim
AttNormWeights(lyr) == weights.rms_att_weight + lyr * config.dim
OutWeights(lyr) == weights.wo + lyr * config.dim * config.dim
FfnNormWeights(lyr) == weights.rms_ffn_weight + lyr * config.dim
W1Weights(lyr) == weights.w1 + lyr * config.dim * config.hidden_dim
W2Weights(lyr) == weights.w2 + lyr * config.dim * config.hidden_dim
W3Weights(lyr) == weights.w3 + lyr * config.dim * config.hidden_dim

QKV ==
    /\ pc = "qkv"
    /\ LET dim == config.dim
       IN  \E xb \in { Rmsnorm(state.x, AttNormWeights(l), dim) } :
             state' = [state EXCEPT
                         !.xb = xb,
                         !.q = MatMul(xb, QueryWeights(l), dim, dim),
                         !.k = MatMul(xb, KeyWeights(l), dim, dim),
                         !.v = MatMul(xb, ValueWeights(l), dim, dim)]
    /\ written' = [written EXCEPT !.xb = @ \cup 0..(config.dim - 1),
                                  !.q = @ \cup 0..(config.dim - 1),
                                  !.k = @ \cup 0..(config.dim - 1),
                                  !.v = @ \cup 0..(config.dim - 1)]
    /\ pc' = "rope"
    /\ UNCHANGED << inputs, config, shared_weights, weights, steps, token, pos, next,
                    l, hdone, out, rnd, ghosts, fp >>

\* transformer(), lines 249-266: rotate each (i, i+1) pair of every head.
Rotate(vec, ps) ==
    LET hs == HeadSize
        fcr(i) == Data(weights.freq_cis_real + (ps * hs) \div 2 + i \div 2)
        fci(i) == Data(weights.freq_cis_imag + (ps * hs) \div 2 + i \div 2)
    IN  Arr([idx \in 0..(config.dim - 1) |->
               LET i == idx % hs
               IN  IF i % 2 = 0
                   THEN Mul(vec[idx], fcr(i)) - Mul(vec[idx + 1], fci(i))
                   ELSE Mul(vec[idx - 1], fci(i - 1)) + Mul(vec[idx], fcr(i - 1))])

RoPE ==
    /\ pc = "rope"
    /\ state' = [state EXCEPT !.q = Rotate(state.q, pos), !.k = Rotate(state.k, pos)]
    /\ written' = [written EXCEPT !.q = @ \cup 0..(config.dim - 1),
                                  !.k = @ \cup 0..(config.dim - 1)]
    /\ pc' = "cache"
    /\ UNCHANGED << inputs, config, shared_weights, weights, steps, token, pos, next,
                    l, hdone, out, rnd, ghosts, fp >>

\* transformer(), lines 268-273: save key, value at this time step to the kv cache.
LayerOffset(lyr) == lyr * config.seq_len * config.dim
CacheRowBad(lyr, ps) == LayerOffset(lyr) + ps * HeadSize
CacheRow(lyr, ps) == LayerOffset(lyr) + ps * config.dim

\* transformer(), lines 277-307: one iteration of the (parallel) loop over heads.
AttnTimestepsBad(ps) == 0..(ps + 1)
AttnTimesteps(ps) == 0..ps

\* float* att = s->att + h * p->seq_len
AttBaseBad(h) == h * (config.seq_len - 1)
AttBase(h) == h * config.seq_len

\* the elements of att the iteration of head h writes (line 293)
AttSlotsBad(h, ps) == { AttBase(h) + t : t \in 0..(config.seq_len - 1) }
AttSlots(h, ps) == { AttBase(h) + t : t \in AttnTimesteps(ps) }

\* the elements of xb the iteration of head h writes (line 305), and of q it reads
XbSlots(h) == { h * HeadSize + i : i \in 0..(HeadSize - 1) }

\* the element of the caches read for head h, timestep t, component i
CacheIdx(lyr, h, t, i) == LayerOffset(lyr) + t * config.dim + h * HeadSize + i

\* lines 283-294: the scores of head h written to its att slice
HeadScores(s, lyr, ps, h) ==
    LET hs == HeadSize
        score(t) ==
            Div(SumTo([i \in 0..(hs - 1) |->
                         Mul(s.q[h * hs + i],
                             ReadAt(s.key_cache, CacheIdx(lyr, h, t, i)))], hs),
                Sqrtf(hs * FxOne))
    IN  Arr([j \in DOMAIN s.att |->
               IF j \in AttSlots(h, ps) THEN score(j - AttBase(h)) ELSE s.att[j]])

\* lines 300-306: the weighted sum of the values, stored into head h's xb slice
HeadValues(s, att, lyr, ps, h) ==
    LET hs == HeadSize
        nt == Cardinality(AttnTimesteps(ps))
        val(i) == SumTo([t \in 0..(nt - 1) |->
                           Mul(ReadAt(att, AttBase(h) + t),
                               ReadAt(s.value_cache, CacheIdx(lyr, h, t, i)))], nt)
    IN  Arr([j \in 0..(config.dim - 1) |->
               IF j \in XbSlots(h) THEN val(j - h * hs) ELSE s.xb[j]])

\* the whole iteration of head h on the RunState s
HeadStep(s, lyr, ps, h) ==
    Only({ [s EXCEPT !.att = att2, !.xb = HeadValues(s, att2, lyr, ps, h)] :
             att2 \in { Softmax(att1, AttBase(h), ps + 1) :
                          att1 \in { HeadScores(s, lyr, ps, h) } } })

RECURSIVE SeqHeads(_, _, _, _)
\* the loop run without OpenMP: h, h + 1, ..., n_heads - 1 in this order
SeqHeads(s, lyr, ps, h) ==
    IF h >= config.n_heads THEN s
    ELSE Only({ SeqHeads(s2, lyr, ps, h + 1) : s2 \in { HeadStep(s, lyr, ps, h) } })

\* lines 272-273: the two memcpy into the caches; the loop over heads starts.
CacheWrite ==
    /\ pc = "cache"
    /\ LET row == CacheRow(l, pos)
           dim == config.dim
       IN  /\ \E s1 \in { [state EXCEPT
                          !.key_cache = Memcpy(state.key_cache, row, state.k, dim),
                          !.value_cache = Memcpy(state.value_cache, row, state.v, dim)] } :
                /\ state' = s1
                /\ \E r \in { SeqHeads(s1, l, pos, 0) } :
                     seq' = [att |-> r.att, xb |-> r.xb]
           /\ kc_writes' = CountWrites(kc_writes, row, dim)
           /\ vc_writes' = CountWrites(vc_writes, row, dim)
           /\ kc_writer' = MarkWriter(kc_writer, row, dim, pos)
           /\ vc_writer' = MarkWriter(vc_writer, row, dim, pos)
    /\ hdone' = {}
    /\ hd_writes' = {}
    /\ hd_reads' = {}
    /\ pc' = "attn"
    /\ UNCHANGED << inputs, config, shared_weights, weights, steps, token, pos, next,
                    l, out, rnd, k_reads, v_reads, written >>

AttnHead(h) ==
    /\ pc = "attn"
    /\ h \notin hdone
    /\ \E s2 \in { HeadStep(state, l, pos, h) } : state' = s2
    /\ LET ts == AttnTimesteps(pos)
           cells == { CacheIdx(l, h, t, i) : t \in ts, i \in 0..(HeadSize - 1) }
           attw == AttSlots(h, pos) \cap DOMAIN state.att
           attr == { AttBase(h) + t : t \in 0..pos }
       IN  /\ k_reads' = k_reads \cup cells
           /\ v_reads' = v_reads \cup cells
           /\ hd_writes' = hd_writes \cup { << h, "att", j >> : j \in attw }
                                     \cup { << h, "xb", j >> : j \in XbSlots(h) }
           /\ hd_reads' = hd_reads \cup { << h, "att", j >> : j \in attr }
                                   \cup { << h, "q", j >> : j \in XbSlots(h) }
                                   \cup { << h, "key_cache", j >> : j \in cells }
                                   \cup { << h, "value_cache", j >> : j \in cells }
           /\ written' = [written EXCEPT !.att = @ \cup attw,
                                         !.xb = @ \cup XbSlots(h)]
    /\ hdone' = hdone \cup {h}
    /\ pc' = IF hdone' = 0..(config.n_heads - 1) THEN "ffn" ELSE "attn"
    /\ UNCHANGED << inputs, config, shared_weights, weights, steps, token, pos, next,
                    l, out, rnd, kc_writes, vc_writes, kc_writer, vc_writer, seq >>

Attention == \E h \in 0..(config.n_heads - 1) : AttnHead(h)

\* F.silu: x * sigmoid(x)
Silu(a) == Mul(a, Div(FxOne, FxOne + Expf(-a)))

\* transformer(), lines 310-337: attention output, residual, ffn, residual.
FeedForward ==
    /\ pc = "ffn"
    /\ LET dim == config.dim
           hidden_dim == config.hidden_dim
       IN  \E xb2 \in { MatMul(state.xb, OutWeights(l), dim, dim) } :
           \E x1 \in { Accum(state.x, xb2, dim) } :
           \E xb1 \in { Rmsnorm(x1, FfnNormWeights(l), dim) } :
           \E hb1 \in { MatMul(xb1, W1Weights(l), dim, hidden_dim) } :
           \E hb2 \in { MatMul(xb1, W3Weights(l), dim, hidden_dim) } :
           \E hb3 \in { Arr([i \in 0..(hidden_dim - 1) |-> Mul(Silu(hb1[i]), hb2[i])]) } :
           \E xb3 \in { MatMul(hb3, W2Weights(l), hidden_dim, dim) } :
             state' = [state EXCEPT
                         !.xb2 = xb2, !.hb = hb3, !.hb2 = hb2, !.xb = xb3,
                         !.x = Accum(x1, xb3, dim)]
    /\ written' = [written EXCEPT !.xb2 = @ \cup 0..(config.dim - 1),
                                  !.x = @ \cup 0..(config.dim - 1),
                                  !.xb = @ \cup 0..(config.dim - 1),
                                  !.hb = @ \cup 0..(config.hidden_dim - 1),
                                  !.hb2 = @ \cup 0..(config.hidden_dim - 1)]
    /\ l' = l + 1
    /\ k_reads' = {}
    /\ v_reads' = {}
    /\ pc' = IF l + 1 < config.n_layers THEN "qkv" ELSE "final"
    /\ UNCHANGED << inputs, config, shared_weights, weights, steps, token, pos, next,
                    hdone, out, rnd, kc_writes, vc_writes, kc_writer, vc_writer, fp >>

\* transformer(), lines 341-344: final rmsnorm and the classifier.
Classifier == weights.wcls

FinalLogits ==
    /\ pc = "final"
    /\ \E x1 \in { Rmsnorm(state.x, weights.rms_final_weight, config.dim) } :
         state' = [state EXCEPT
                     !.x = x1,
                     !.logits = MatMul(x1, Classifier, config.dim, config.vocab_size)]
    /\ written' = [written EXCEPT !.x = @ \cup 0..(config.dim - 1),
                                  !.logits = @ \cup 0..(config.vocab_size - 1)]
    /\ pc' = "sample"
    /\ UNCHANGED << inputs, config, shared_weights, weights, steps, token, pos, next,
                    l, hdone, out, rnd, ghosts, fp >>

----
\* The sampler.
RECURSIVE ArgmaxScan(_, _, _, _, _)
\* argmax's loop from index i with the running max_i, max_p
ArgmaxScan(v, n, i, max_i, max_p) ==
    IF i >= n THEN max_i
    ELSE IF v[i] > max_p THEN ArgmaxScan(v, n, i + 1, i, v[i])
    ELSE ArgmaxScan(v, n, i + 1, max_i, max_p)

ArgmaxLast(v, n) == CHOOSE i \in 0..(n - 1) :
    /\ \A j \in 0..(n - 1) : v[j] <= v[i]
    /\ \A j \in (i + 1)..(n - 1) : v[j] < v[i]
Argmax(v, n) == ArgmaxScan(v, n, 1, 0, v[0])

\* r = (float)rand() / (float)RAND_MAX
RandFloat(rv) == Div(rv * FxOne, RandMax * FxOne)

RECURSIVE SampleScan(_, _, _, _, _)
\* the loop of sample() from index i with the running cdf
SampleScan(probabilities, n, r, i, cdf) ==
    IF i >= n THEN n - 1
    ELSE IF r < cdf + probabilities[i] THEN i
    ELSE SampleScan(probabilities, n, r, i + 1, cdf + probabilities[i])

SampleBad(probabilities, n, rv) == SampleScan(probabilities, n, RandFloat(rv), 1, 0)
Sample(probabilities, n, rv) == SampleScan(probabilities, n, RandFloat(rv), 0, 0)

\* main(), lines 640-642: greedy argmax sampling.
SampleArgmax ==
    /\ pc = "sample"
    /\ temperature = 0
    /\ next' = Argmax(state.logits, config.vocab_size)
    /\ pc' = "emit"
    /\ UNCHANGED << inputs, config, shared_weights, weights, steps, state, token, pos,
                    l, hdone, out, rnd, ghosts, fp, written >>

\* main(), lines 643-650: temperature, softmax, sample.
SampleRandom ==
    /\ pc = "sample"
    /\ temperature # 0
    /\ LET n == config.vocab_size
       IN  \E scaled \in { Arr([q \in 0..(n - 1) |-> Div(state.logits[q], temperature)]) } :
           \E probabilities \in { Softmax(scaled, 0, n) } :
             /\ state' = [state EXCEPT !.logits = probabilities]
             /\ \E rv \in 0..RandMax :
                  /\ rnd' = rv
                  /\ next' = Sample(probabilities, n, rv)
    /\ pc' = "emit"
    /\ UNCHANGED << inputs, config, shared_weights, weights, steps, token, pos,
                    l, hdone, out, ghosts, fp, written >>

\* main(), lines 652-655: print the token, feed it back, advance.
Emit ==
    /\ pc = "emit"
    /\ out' = Append(out, next)
    /\ token' = next
    /\ pos' = pos + 1
    /\ pc' = LoopHead(pos + 1, steps)
    /\ UNCHANGED << inputs, config, shared_weights, weights, steps, state, next,
                    l, hdone, rnd, ghosts, fp, written >>

Transformer == Embed \/ QKV \/ RoPE \/ CacheWrite \/ Attention \/ FeedForward \/ FinalLogits

Next ==
    \/ ReadCheckpoint
    \/ ClampSteps
    \/ AllocRunState
    \/ Transformer
    \/ SampleArgmax
    \/ SampleRandom
    \/ Emit

Spec == Init /\ [][Next]_vars

\* main() is one sequential thread: it keeps running until it returns.  The
\* number of iterations does not depend on the tensor data: one file content.
InitSteps == Init /\ seed = 0

FairSpec == InitSteps /\ [][Next]_vars /\ WF_vars(Next)

----
\* The loader alone, over a wider range of headers.
LayoutHeaders ==
    { [ dim |-> dh[1], hidden_dim |-> hd, n_layers |-> nl, n_heads |-> dh[2],
        n_kv_heads |-> dh[2], vocab_size |-> sg * v, seq_len |-> sl ] :
        dh \in LayoutDimHeads, hd \in 1..LayoutMax, nl \in 1..LayoutMax,
        sg \in {-1, 1}, v \in 1..LayoutMax, sl \in 1..LayoutMax }

InitLayout ==
    /\ hdr \in LayoutHeaders
    /\ file_floats = HeaderWords + ImpliedFloats(hdr)
    /\ seed = 0
    /\ arg_steps = 0
    /\ temperature = 0
    /\ InitCommon

SpecLayout == InitLayout /\ [][ReadCheckpoint]_vars

----
\* The sampler alone, applied to every logits vector over LogitVals.
InitSampler ==
    /\ hdr = NoConfig
    /\ file_floats = 0
    /\ seed = 0
    /\ arg_steps = 0
    /\ temperature \in {0, FxOne \div 2, FxOne}
    /\ pc = "sample"
    /\ \E n \in 1..MaxLogits :
         /\ config = [NoConfig EXCEPT !.vocab_size = n]
         /\ \E lg \in [0..(n - 1) -> LogitVals] : state = [NoState EXCEPT !.logits = lg]
    /\ shared_weights = 0
    /\ weights = NoWeights
    /\ steps = 0
    /\ token = 0 /\ pos = 0 /\ next = 0
    /\ l = 0
    /\ hdone = {}
    /\ out = << >>
    /\ rnd = 0
    /\ kc_writes = << >> /\ vc_writes = << >>
    /\ kc_writer = << >> /\ vc_writer = << >>
    /\ k_reads = {} /\ v_reads = {}
    /\ hd_writes = {} /\ hd_reads = {}
    /\ seq = NoSeq
    /\ written = NoWritten

SpecSampler == InitSampler /\ [][SampleArgmax \/ SampleRandom]_vars

----
\* A checkpoint file shorter than its header implies.  main() never compares
\* file_size with the size the header implies; a read past the end of the
\* file returns zero (the rest of the last page) or ends the process with a
\* signal (past the mapping).
InitTrunc ==
    /\ hdr \in Headers
    /\ \E m \in 1..MaxMissing : file_floats = HeaderWords + ImpliedFloats(hdr) - m
    /\ seed \in Seeds
    /\ arg_steps \in {0, 1}
    /\ temperature \in {0, FxOne}
    /\ InitCommon

\* one past the last word of the mapping the next step of transformer() reads
PhaseReadEnd ==
    CASE pc = "embed" -> EmbeddingRow(token) + config.dim
      [] pc = "qkv"   -> ValueWeights(l) + config.dim * config.dim
      [] pc = "rope"  -> weights.freq_cis_imag + (pos * HeadSize) \div 2 + HeadSize \div 2
      [] pc = "ffn"   -> W3Weights(l) + config.dim * config.hidden_dim
      [] pc = "final" -> IF Classifier > weights.rms_final_weight
                         THEN Classifier + config.vocab_size * config.dim
                         ELSE weights.rms_final_weight + config.dim
      [] OTHER        -> 0

Fault ==
    /\ PhaseReadEnd > file_floats
    /\ pc' = "signal"
    /\ UNCHANGED << inputs, config, shared_weights, weights, steps, state, token, pos,
                    next, l, hdone, out, rnd, ghosts, fp, written >>

SpecTrunc == InitTrunc /\ [][Next \/ Fault]_vars

----
\* Claims.

\* steps_eff of the generation loop, from the inputs
StepsEff ==
    IF 0 < arg_steps /\ arg_steps <= hdr.seq_len THEN arg_steps ELSE hdr.seq_len

LoopBody == { "embed", "qkv", "rope", "cache", "attn", "ffn", "final", "sample", "emit" }

\* C1: the generation loop runs exactly steps_eff iterations and then
\* terminates: pos starts at 0, the loop body only runs while pos < steps_eff,
\* pos grows by exactly 1 per iteration (at the emit), main() reaches its end,
\* and there pos = steps_eff with steps_eff tokens emitted.
C1_StepClamping ==
    /\ [](pc \in LoopBody => pos < StepsEff /\ Len(out) = pos)
    /\ [](pc = "done" => pos = StepsEff /\ Len(out) = StepsEff)
    /\ [][ \/ pos' = pos
           \/ pc = "emit" /\ pos' = pos + 1 ]_vars
    /\ <>(pc = "done")

C1_Witness ==
    /\ pc = "done"
    /\ arg_steps = 0
    /\ hdr.seq_len >= 2
    /\ Len(out) = hdr.seq_len

\* the (layer, position) slot a flat cache index belongs to, by the
\* (layer, seq_len, dim) shape of the cache
SlotLayer(i) == i \div (config.seq_len * config.dim)
SlotPos(i) == (i % (config.seq_len * config.dim)) \div config.dim

\* C2: every element of key/value cache slot (l, p) is written at most once,
\* and only by the step whose pos is p; written content never changes in a
\* later step; a step at pos changes no slot (l, tau) with tau # pos; at the
\* end of the run exactly the slots with p < steps_eff have been written once.
C2_CacheMonotonic ==
    /\ [](\A i \in DOMAIN kc_writes :
            /\ kc_writes[i] <= 1 /\ vc_writes[i] <= 1
            /\ kc_writes[i] = 1 => kc_writer[i] = SlotPos(i)
            /\ vc_writes[i] = 1 => vc_writer[i] = SlotPos(i))
    /\ [](pc = "done" =>
            \A i \in DOMAIN kc_writes :
                /\ kc_writes[i] = (IF SlotPos(i) < StepsEff THEN 1 ELSE 0)
                /\ vc_writes[i] = (IF SlotPos(i) < StepsEff THEN 1 ELSE 0))
    /\ [][ \A i \in DOMAIN kc_writes :
             (kc_writes[i] >= 1 \/ SlotPos(i) # pos) /\ pc \in LoopBody =>
                 /\ state'.key_cache[i] = state.key_cache[i]
                 /\ state'.value_cache[i] = state.value_cache[i] ]_vars

C2_Witness ==
    /\ pc = "done"
    /\ config.n_layers >= 2
    /\ StepsEff >= 2
    /\ \A i \in DOMAIN kc_writes : kc_writes[i] = 1 /\ vc_writes[i] = 1

\* C3: with temperature 0 the sampled token is an index of the maximum
\* logit, and no lower index holds the same value.
C3_ArgmaxFirst ==
    pc = "emit" /\ temperature = 0 =>
        /\ next \in 0..(config.vocab_size - 1)
        /\ \A j \in 0..(config.vocab_size - 1) : state.logits[j] <= state.logits[next]
        /\ \A j \in 0..(next - 1) : state.logits[j] # state.logits[next]

C3_Witness ==
    /\ pc = "emit" /\ temperature = 0
    /\ next >= 1
    /\ \E j \in (next + 1)..(config.vocab_size - 1) : state.logits[j] = state.logits[next]

\* indices whose cumulative probability p[0] + ... + p[i] exceeds r
Exceeding(p, n, r) == { i \in 0..(n - 1) : SumTo(p, i + 1) > r }

\* what the claim says sample() returns for the draw r
FirstExceeding(p, n, r) ==
    IF Exceeding(p, n, r) = {} THEN n - 1
    ELSE CHOOSE i \in Exceeding(p, n, r) : \A j \in Exceeding(p, n, r) : i <= j

\* C4 (as amended): with temperature > 0 the sampler draws r in the closed
\* interval [0,1] (rand() may return RAND_MAX) and returns the smallest index
\* whose cumulative probability exceeds r, or n-1 if there is none; the
\* result lies in [0, n).
C4_SampleClosedDraw ==
    pc = "emit" /\ temperature # 0 =>
        /\ 0 <= RandFloat(rnd) /\ RandFloat(rnd) <= FxOne
        /\ next = FirstExceeding(state.logits, config.vocab_size, RandFloat(rnd))
        /\ next \in 0..(config.vocab_size - 1)

\* C4 (as claimed): the same with r in the half-open interval [0,1).
C4_SampleHalfOpenDraw ==
    pc = "emit" /\ temperature # 0 =>
        /\ 0 <= RandFloat(rnd) /\ RandFloat(rnd) < FxOne
        /\ next = FirstExceeding(state.logits, config.vocab_size, RandFloat(rnd))
        /\ next \in 0..(config.vocab_size - 1)

C4_Witness ==
    /\ pc = "emit" /\ temperature # 0
    /\ config.vocab_size >= 2
    /\ RandFloat(rnd) = FxOne
    /\ Exceeding(state.logits, config.vocab_size, RandFloat(rnd)) = {}
    /\ next = config.vocab_size - 1

InTransformer == { "qkv", "rope", "cache", "attn", "ffn", "final" }

\* C5 (as claimed): transformer() computes only for a token below vocab_size
\* and a pos below seq_len (any other call fails with a range error), so the
\* embedding row it has read lies inside the embedding table.
C5_RangeChecked ==
    pc \in InTransformer =>
        /\ token < config.vocab_size
        /\ pos < config.seq_len
        /\ EmbeddingRow(token) + config.dim <= weights.rms_att_weight

\* C6 (as claimed): generation begins only for a checkpoint file at least as
\* long as its header implies (a shorter file is rejected by the loader).
C6_ShortFileRejected ==
    pc \in LoopBody \cup { "done", "signal" } =>
        file_floats >= HeaderWords + ImpliedFloats(hdr)

\* y = W x for the (d, n) row-major matrix at data + woff
RECURSIVE RowDot(_, _, _)
RowDot(off, x, n) ==
    IF n = 0 THEN 0 ELSE RowDot(off, x, n - 1) + Mul(Data(off + n - 1), x[n - 1])
MatVec(woff, x, n, d) == [i \in 0..(d - 1) |-> RowDot(woff + i * n, x, n)]

\* C7: the vocabulary size is the absolute value of the header's; with a
\* negative header value the classifier is the tensor right after
\* freq_cis_imag, otherwise it is the token embedding table, and the logits
\* are the product of that (vocab_size, dim) matrix with the final x.
C7_WeightTying ==
    pc # "start" =>
        LET v == IF hdr.vocab_size < 0 THEN -hdr.vocab_size ELSE hdr.vocab_size
            after == weights.freq_cis_imag
                        + (config.seq_len * (config.dim \div config.n_heads)) \div 2
            cls == IF hdr.vocab_size < 0 THEN after ELSE weights.token_embedding_table
        IN  /\ config.vocab_size = v
            /\ weights.token_embedding_table = HeaderWords
            /\ Classifier = cls
            /\ pc = "sample" => state.logits = MatVec(cls, state.x, config.dim, v)

C7_Witness ==
    /\ pc = "sample"
    /\ hdr.vocab_size >= 2
    /\ Classifier = weights.token_embedding_table
    /\ state.logits #
         MatVec(weights.freq_cis_imag + FreqCisSize(config), state.x, config.dim,
                config.vocab_size)

RECURSIVE SeqSum(_, _)
\* s[1] + ... + s[n]
SeqSum(s, n) == IF n = 0 THEN 0 ELSE SeqSum(s, n - 1) + s[n]

\* the element counts of the tensors, in the order of the file
TensorSizes ==
    LET d == config.dim
        h == config.hidden_dim
        nl == config.n_layers
        hs == config.dim \div config.n_heads
    IN  << config.vocab_size * d, nl * d, nl * d * d, nl * d * d, nl * d * d,
           nl * d * d, nl * d, nl * h * d, nl * d * h, nl * h * d, d,
           (config.seq_len * hs) \div 2, (config.seq_len * hs) \div 2 >>

TensorStarts ==
    << weights.token_embedding_table, weights.rms_att_weight, weights.wq, weights.wk,
       weights.wv, weights.wo, weights.rms_ffn_weight, weights.w1, weights.w2,
       weights.w3, weights.rms_final_weight, weights.freq_cis_real,
       weights.freq_cis_imag >>

\* the per-layer views transformer() takes, with the tensor each lies in
LayerViews(lyr) ==
    << << AttNormWeights(lyr), 2 >>, << QueryWeights(lyr), 3 >>, << KeyWeights(lyr), 4 >>,
       << ValueWeights(lyr), 5 >>, << OutWeights(lyr), 6 >>, << FfnNormWeights(lyr), 7 >>,
       << W1Weights(lyr), 8 >>, << W2Weights(lyr), 9 >>, << W3Weights(lyr), 10 >> >>

C9_KeyFromWk ==
    pc = "rope" =>
        LET d == config.dim
        IN  /\ state.q = MatVec(weights.wq + l * d * d, state.xb, d, d)
            /\ state.k = MatVec(weights.wk + l * d * d, state.xb, d, d)
            /\ state.v = MatVec(weights.wv + l * d * d, state.xb, d, d)

\* C9 (as claimed): before RoPE, k = Wv.xb, the same vector as v = Wv.xb,
\* and q = Wq.xb.
C9_KeyFromWv ==
    pc = "rope" =>
        LET d == config.dim
        IN  /\ state.q = MatVec(weights.wq + l * d * d, state.xb, d, d)
            /\ state.k = MatVec(weights.wv + l * d * d, state.xb, d, d)
            /\ state.v = MatVec(weights.wv + l * d * d, state.xb, d, d)

C9_Witness ==
    /\ pc = "rope"
    /\ l >= 1
    /\ state.k # state.v
    /\ state.k = MatVec(weights.wk + l * config.dim * config.dim, state.xb,
                        config.dim, config.dim)

\* C10: every key/value cache element the attention loop of the step at pos
\* reads lies in a slot (l, tau) of the current layer with 0 <= tau <= pos, and
\* that slot has been written in this run, by the step whose pos is tau.
C10_WriteBeforeRead ==
    /\ \A i \in k_reads :
         /\ i \in DOMAIN kc_writes
         /\ SlotLayer(i) = l /\ SlotPos(i) \in 0..pos
         /\ kc_writes[i] >= 1 /\ kc_writer[i] = SlotPos(i)
    /\ \A i \in v_reads :
         /\ i \in DOMAIN vc_writes
         /\ SlotLayer(i) = l /\ SlotPos(i) \in 0..pos
         /\ vc_writes[i] >= 1 /\ vc_writer[i] = SlotPos(i)

C10_Witness ==
    /\ pc = "ffn"
    /\ pos >= 1 /\ l >= 1
    /\ \E i \in k_reads : SlotPos(i) < pos
    /\ \E i \in v_reads : SlotPos(i) = pos

\* C11: in the loop over heads, no element that one head writes (of att or
\* xb) is read or written by another head; the heads write nothing but att
\* and xb (q and the two caches stay as they are); hence whatever the order
\* in which the iterations run, each head's slices of att and xb, and in the
\* end the whole of att and xb, are what the loop run in the order
\* h = 0, 1, ... leaves there.
C11_HeadsDisjoint ==
    /\ [](\A a \in hd_writes : \A b \in hd_writes \cup hd_reads :
            a[1] # b[1] => ~(a[2] = b[2] /\ a[3] = b[3]))
    /\ [](\A a \in hd_writes : a[2] \in { "att", "xb" })
    /\ [][ pc = "attn" =>
             /\ state'.q = state.q
             /\ state'.key_cache = state.key_cache
             /\ state'.value_cache = state.value_cache ]_vars
    /\ [](pc \in { "attn", "ffn" } =>
            \A h \in hdone :
                /\ \A j \in AttSlots(h, pos) : state.att[j] = seq.att[j]
                /\ \A j \in XbSlots(h) : state.xb[j] = seq.xb[j])
    /\ [](pc = "ffn" => state.att = seq.att /\ state.xb = seq.xb)

\* head 1 has run before head 0, at a position with two timesteps
C11_Witness ==
    /\ pc = "attn"
    /\ config.n_heads = 2 /\ hdone = {1}
    /\ pos >= 1 /\ l >= 1
    /\ \E a \in hd_writes : a[1] = 1 /\ a[2] = "att" /\ a[3] = AttBase(1) + pos
    /\ \E j \in XbSlots(1) : state.xb[j] = seq.xb[j] /\ state.xb[j] # 0
    /\ \E j \in XbSlots(0) : state.xb[j] # seq.xb[j]

\* the elements the call of transformer() has written, buffer by buffer, for
\* the buffers the call writes whole
WholeBuffersWritten ==
    /\ written.x = 0..(config.dim - 1)
    /\ written.xb = 0..(config.dim - 1)
    /\ written.xb2 = 0..(config.dim - 1)
    /\ written.q = 0..(config.dim - 1)
    /\ written.k = 0..(config.dim - 1)
    /\ written.v = 0..(config.dim - 1)
    /\ written.hb = 0..(config.hidden_dim - 1)
    /\ written.hb2 = 0..(config.hidden_dim - 1)
    /\ written.logits = 0..(config.vocab_size - 1)

\* C12 (as amended): when a call of transformer() at pos returns, it has
\* written every element of x, xb, xb2, hb, hb2, q, k, v and logits, and of
\* att exactly the elements h * seq_len + t with t <= pos; the att elements
\* with t > pos are not written, and no head has read one of them.
C12_OverwrittenUpToPos ==
    pc = "sample" =>
        /\ WholeBuffersWritten
        /\ written.att = { h * config.seq_len + t :
                             h \in 0..(config.n_heads - 1), t \in 0..pos }
        /\ \A a \in hd_reads : a[2] = "att" => a[3] \in written.att

\* C12 (as claimed): when a call of transformer() returns, it has written
\* every element of x, xb, xb2, hb, hb2, q, k, v, logits and all
\* n_heads * seq_len elements of att.
C12_AllOverwritten ==
    pc = "sample" =>
        /\ WholeBuffersWritten
        /\ written.att = 0..(config.n_heads * config.seq_len - 1)

\* a call at pos 0 of a model with two timesteps and two heads has returned
C12_Witness ==
    /\ pc = "sample"
    /\ pos = 0 /\ config.seq_len >= 2 /\ config.n_heads >= 2 /\ config.n_layers >= 2
    /\ WholeBuffersWritten
    /\ written.att = { 0, config.seq_len }
    /\ \A h \in 0..(config.n_heads - 1) : state.att[h * config.seq_len] # 0

\* C13 (as claimed): every call of transformer() the generation loop issues,
\* and so every state of an iteration, has 0 <= token < vocab_size (the
\* initial token, id 1, and every token fed back from the sampler) and
\* 0 <= pos < seq_len, for every configuration with positive fields,
\* vocab_size = 1 included.
C13_CallPreconditions ==
    pc \in LoopBody =>
        /\ 0 <= token /\ token < config.vocab_size
        /\ 0 <= pos /\ pos < config.seq_len

====
